---- MODULE Spec2Model ----
(***************************************************************************)
(* Model of simple_query/query_ast.py: QueryAst(query, converters) turns a *)
(* filter query into a tree of Comparison / LogicalOperator nodes.         *)
(*                                                                         *)
(* A text is a sequence of one-character strings.  The pipeline follows    *)
(* the source: strip, lower-case, rewrite the relational keywords, parse   *)
(* the result as a Python expression (ast.parse, mode "eval"), walk the    *)
(* generic tree, and rewrite any SyntaxError with a line of the query.     *)
(* ast.parse is the interpreter's parser; it is modelled for the part of   *)
(* the expression grammar the queries below can reach (CPython 3.7 to 3.9, *)
(* the versions whose messages the tests quote), and anything outside that *)
(* part is flagged by the node type "OutOfModel".                          *)
(***************************************************************************)
EXTENDS Integers, Sequences, FiniteSets, TLC

VARIABLES pc, query, field_value_converters, query_text, py_ast, ast, raised, calls

vars == <<pc, query, field_value_converters, query_text, py_ast, ast, raised, calls>>

(***************************************************************************)
(* Characters                                                              *)
(***************************************************************************)
LowerLetters ==
    <<"a","b","c","d","e","f","g","h","i","j","k","l","m",
      "n","o","p","q","r","s","t","u","v","w","x","y","z">>

UpperLetters ==
    <<"A","B","C","D","E","F","G","H","I","J","K","L","M",
      "N","O","P","Q","R","S","T","U","V","W","X","Y","Z">>

LowerSet == {LowerLetters[i] : i \in 1..26}

UpperSet == {UpperLetters[i] : i \in 1..26}

Digits == <<"0","1","2","3","4","5","6","7","8","9">>

DigitSet == {Digits[i] : i \in 1..10}

DigitValue(c) == (CHOOSE i \in 1..10 : Digits[i] = c) - 1

Whitespace == {" ", "\t", "\n"}

\* \w of the re module, on the characters of the model
IsWordChar(c) == c \in LowerSet \cup UpperSet \cup DigitSet \cup {"_"}

\* str.lower() of one character
LowerChar(c) ==
    IF c \in UpperSet
    THEN LowerLetters[CHOOSE i \in 1..26 : UpperLetters[i] = c]
    ELSE c

\* str.upper() of one character
UpperChar(c) ==
    IF c \in LowerSet
    THEN UpperLetters[CHOOSE i \in 1..26 : LowerLetters[i] = c]
    ELSE c

\* str.lower()
Lower(s) == [i \in 1..Len(s) |-> LowerChar(s[i])]

RECURSIVE LStrip(_)
LStrip(s) ==
    IF s # <<>> /\ s[1] \in Whitespace THEN LStrip(Tail(s)) ELSE s

RECURSIVE RStrip(_)
RStrip(s) ==
    IF s # <<>> /\ s[Len(s)] \in Whitespace
    THEN RStrip(SubSeq(s, 1, Len(s) - 1))
    ELSE s

\* str.strip()
Strip(s) == RStrip(LStrip(s))

\* str.splitlines(): no empty last line after a final line break
RECURSIVE SplitLinesFrom(_, _)
SplitLinesFrom(s, cur) ==
    IF s = <<>> THEN (IF cur = <<>> THEN <<>> ELSE <<cur>>)
    ELSE IF s[1] = "\n" THEN <<cur>> \o SplitLinesFrom(Tail(s), <<>>)
    ELSE SplitLinesFrom(Tail(s), Append(cur, s[1]))

splitlines(s) == SplitLinesFrom(s, <<>>)

(***************************************************************************)
(* Operator normalizer                                                     *)
(***************************************************************************)
PSEUDO_FILENAME == "<web request>"

\* the keys of _rel_ops_mapping
RelOpWords ==
    {<<"e","q">>, <<"n","e">>, <<"g","t">>, <<"l","t">>, <<"g","e">>, <<"l","e">>}

\* _rel_ops_mapping with the symbol of "gt" mistyped
_rel_ops_mapping_gt_mistyped(w) ==
    CASE w = <<"e","q">> -> <<"=","=">>
      [] w = <<"n","e">> -> <<"!","=">>
      [] w = <<"g","t">> -> <<">","=">>
      [] w = <<"l","t">> -> <<" ","<">>
      [] w = <<"g","e">> -> <<">","=">>
      [] w = <<"l","e">> -> <<"<","=">>

_rel_ops_mapping(w) ==
    CASE w = <<"e","q">> -> <<"=","=">>
      [] w = <<"n","e">> -> <<"!","=">>
      [] w = <<"g","t">> -> <<" ",">">>
      [] w = <<"l","t">> -> <<" ","<">>
      [] w = <<"g","e">> -> <<">","=">>
      [] w = <<"l","e">> -> <<"<","=">>

\* _rel_op_re matches at i: \b(eq|ne|gt|lt|ge|le)\b
_rel_op_re(t, i) ==
    /\ i + 1 <= Len(t)
    /\ <<t[i], t[i+1]>> \in RelOpWords
    /\ (i = 1 \/ ~IsWordChar(t[i-1]))
    /\ (i + 2 > Len(t) \/ ~IsWordChar(t[i+2]))

RECURSIVE RewriteFrom(_, _)
RewriteFrom(t, i) ==
    IF i > Len(t) THEN <<>>
    ELSE IF _rel_op_re(t, i)
         THEN _rel_ops_mapping(<<t[i], t[i+1]>>) \o RewriteFrom(t, i + 2)
         ELSE <<t[i]>> \o RewriteFrom(t, i + 1)

_query_to_python_expression(q) == RewriteFrom(Lower(q), 1)

(***************************************************************************)
(* ast.parse, part 1: the interpreter's tokenizer (Parser/tokenizer.c,     *)
(* tok_get).  A token is [type, str, line, col]; tokenizing stops at the   *)
(* first ERRORTOKEN, which the parser raises when it asks for that token.  *)
(***************************************************************************)
Token(type, str, line, col) ==
    [type |-> type, str |-> str, line |-> line, col |-> col]

RECURSIVE ScanWord(_, _)
ScanWord(t, i) ==
    IF i <= Len(t) /\ IsWordChar(t[i]) THEN ScanWord(t, i + 1) ELSE i

RECURSIVE ScanDigits(_, _)
ScanDigits(t, i) ==
    IF i <= Len(t) /\ t[i] \in DigitSet THEN ScanDigits(t, i + 1) ELSE i

\* index of the closing quote of a one-line string opened before i, or 0
RECURSIVE ScanString(_, _, _)
ScanString(t, i, quote) ==
    IF i > Len(t) \/ t[i] = "\n" THEN 0
    ELSE IF t[i] = quote THEN i
    ELSE ScanString(t, i + 1, quote)

\* index of the first of the three closing quotes of a triple-quoted string, or 0
RECURSIVE ScanTriple(_, _, _)
ScanTriple(t, i, quote) ==
    IF i + 2 > Len(t) THEN 0
    ELSE IF t[i] = quote /\ t[i+1] = quote /\ t[i+2] = quote THEN i
    ELSE ScanTriple(t, i + 1, quote)

NumLineBreaks(s) == Cardinality({k \in 1..Len(s) : s[k] = "\n"})

\* column after the text s, which was entered at column col
ColAfter(s, col) ==
    IF \E k \in 1..Len(s) : s[k] = "\n"
    THEN Len(s) - (CHOOSE k \in 1..Len(s) :
                      s[k] = "\n" /\ \A m \in (k+1)..Len(s) : s[m] # "\n")
    ELSE col + Len(s)

Quotes == {"'", "\""}

ThreeCharOps == {<<"<","<","=">>, <<">",">","=">>}

TwoCharOps ==
    {<<"=","=">>, <<"!","=">>, <<"<","=">>, <<">","=">>, <<"<","<">>,
     <<">",">">>, <<"<",">">>, <<"-",">">>, <<"-","=">>}

OneCharOps == {"(", ")", ",", ";", "-", "=", "<", ">"}

\* letters that may open a string prefix (b'', r'', u'', f'')
StringPrefixChars == {"b", "r", "u", "f"}

\* what follows a run of decimal digits and makes a literal the model leaves out
NumberTail(t, i, j) ==
    /\ j <= Len(t)
    /\ \/ t[j] \in {".", "_", "j"}
       \/ (j = i + 1 /\ t[i] = "0" /\ t[j] \in {"x", "o", "b"})
       \/ /\ t[j] = "e"
          /\ j + 1 <= Len(t)
          /\ t[j+1] \in DigitSet \cup {"+", "-"}

RECURSIVE DecimalValue(_)
DecimalValue(ds) ==
    IF ds = <<>> THEN 0
    ELSE 10 * DecimalValue(SubSeq(ds, 1, Len(ds) - 1)) + DigitValue(ds[Len(ds)])

\* tok_get from index i: the tokens up to ENDMARKER or the first ERRORTOKEN.
\* level: open brackets; bol: no token yet on this line; ind: white space
\* seen since the line began; any: a token was produced (the text is not empty)
RECURSIVE Tokens(_, _, _, _, _, _, _, _)
Tokens(t, i, line, col, level, bol, ind, any) ==
    IF i > Len(t) THEN
        IF ~any THEN <<Token("ENDMARKER", <<>>, 0, 0)>>
        ELSE IF level > 0 THEN <<Token("ENDMARKER", <<>>, line, col)>>
        ELSE <<Token("NEWLINE", <<"EOF">>, line, col),
               Token("ENDMARKER", <<>>, line, col)>>
    ELSE LET c == t[i] IN
    IF c \in {" ", "\t"} THEN
        Tokens(t, i + 1, line, col + 1, level, bol, TRUE, any)
    ELSE IF c = "\n" THEN
        IF level > 0 \/ bol
        THEN Tokens(t, i + 1, line + 1, 0, level, bol, FALSE, any)
        ELSE <<Token("NEWLINE", <<>>, line, col)>>
             \o Tokens(t, i + 1, line + 1, 0, level, TRUE, FALSE, any)
    ELSE IF bol /\ ind /\ level <= 0 THEN
        <<Token("INDENT", <<>>, line, col)>>
        \o Tokens(t, i, line, col, level, FALSE, FALSE, TRUE)
    ELSE IF c \in LowerSet \cup UpperSet \cup {"_"} THEN
        LET j == ScanWord(t, i)
            w == SubSeq(t, i, j - 1)
        IN  IF /\ j <= Len(t) /\ t[j] \in Quotes
               /\ Len(w) <= 2
               /\ \A k \in 1..Len(w) : LowerChar(w[k]) \in StringPrefixChars
            THEN <<Token("OUTOFMODEL", w, line, col)>>
            ELSE <<Token("NAME", w, line, col)>>
                 \o Tokens(t, j, line, col + (j - i), level, FALSE, FALSE, TRUE)
    ELSE IF c \in DigitSet THEN
        LET j == ScanDigits(t, i)
            ds == SubSeq(t, i, j - 1)
        IN  IF NumberTail(t, i, j) THEN <<Token("OUTOFMODEL", ds, line, col)>>
            ELSE IF ds[1] = "0" /\ \E k \in 1..Len(ds) : ds[k] # "0"
            THEN <<Token("ERRORTOKEN", <<"invalid token">>, line, col)>>
            ELSE <<Token("NUMBER", ds, line, col)>>
                 \o Tokens(t, j, line, col + (j - i), level, FALSE, FALSE, TRUE)
    ELSE IF c \in Quotes THEN
        IF i + 2 <= Len(t) /\ t[i+1] = c /\ t[i+2] = c THEN
            LET j == ScanTriple(t, i + 3, c) IN
            IF j = 0
            THEN <<Token("ERRORTOKEN",
                         <<"EOF while scanning triple-quoted string literal">>,
                         line + NumLineBreaks(SubSeq(t, i, Len(t))), col)>>
            ELSE LET body == SubSeq(t, i + 3, j - 1) IN
                 <<Token("STRING", body, line, col)>>
                 \o Tokens(t, j + 3, line + NumLineBreaks(body),
                           ColAfter(body, col + 3) + 3, level, FALSE, FALSE, TRUE)
        ELSE
            LET j == ScanString(t, i + 1, c) IN
            IF j = 0
            THEN <<Token("ERRORTOKEN", <<"EOL while scanning string literal">>,
                         line, col)>>
            ELSE <<Token("STRING", SubSeq(t, i + 1, j - 1), line, col)>>
                 \o Tokens(t, j + 1, line, col + (j + 1 - i), level, FALSE, FALSE, TRUE)
    ELSE IF i + 2 <= Len(t) /\ SubSeq(t, i, i + 2) \in ThreeCharOps THEN
        <<Token("OP", SubSeq(t, i, i + 2), line, col)>>
        \o Tokens(t, i + 3, line, col + 3, level, FALSE, FALSE, TRUE)
    ELSE IF i + 1 <= Len(t) /\ SubSeq(t, i, i + 1) \in TwoCharOps THEN
        <<Token("OP", SubSeq(t, i, i + 1), line, col)>>
        \o Tokens(t, i + 2, line, col + 2, level, FALSE, FALSE, TRUE)
    ELSE IF c \in OneCharOps THEN
        <<Token("OP", <<c>>, line, col)>>
        \o Tokens(t, i + 1, line, col + 1,
                  IF c = "(" THEN level + 1 ELSE IF c = ")" THEN level - 1 ELSE level,
                  FALSE, FALSE, TRUE)
    ELSE IF c = "!" THEN
        <<Token("ERRORTOKEN", <<"invalid syntax">>, line, col)>>
    ELSE <<Token("OUTOFMODEL", <<c>>, line, col)>>

tokenize(t) == Tokens(t, 1, 1, 0, 0, TRUE, FALSE, FALSE)

(***************************************************************************)
(* ast.parse, part 2: the expression grammar (Grammar/Grammar, eval_input) *)
(* and the generic nodes of Python/ast.c.  Every parse function takes the  *)
(* tokens ts and an index k and returns [ok, node, next]; when ok is FALSE *)
(* node is the SyntaxError raised at the token that could not be accepted. *)
(***************************************************************************)
Name(id, line, col) ==
    [type |-> "Name", id |-> id, lineno |-> line, col_offset |-> col]

Num(n, line, col) ==
    [type |-> "Num", n |-> n, lineno |-> line, col_offset |-> col]

Str(s, line, col) ==
    [type |-> "Str", s |-> s, lineno |-> line, col_offset |-> col]

UnaryOp(op, operand, line, col) ==
    [type |-> "UnaryOp", op |-> op, operand |-> operand,
     lineno |-> line, col_offset |-> col]

BinOp(left, op, right) ==
    [type |-> "BinOp", left |-> left, op |-> op, right |-> right,
     lineno |-> left.lineno, col_offset |-> left.col_offset]

BoolOp(op, values) ==
    [type |-> "BoolOp", op |-> op, values |-> values,
     lineno |-> values[1].lineno, col_offset |-> values[1].col_offset]

Compare(left, ops, comparators) ==
    [type |-> "Compare", left |-> left, ops |-> ops, comparators |-> comparators,
     lineno |-> left.lineno, col_offset |-> left.col_offset]

Tuple(elts, line, col) ==
    [type |-> "Tuple", elts |-> elts, lineno |-> line, col_offset |-> col]

Call(func, args) ==
    [type |-> "Call", func |-> func, args |-> args,
     lineno |-> func.lineno, col_offset |-> func.col_offset]

\* the keywords of the language that a lower-cased text can hold
Keywords ==
    {<<"a","n","d">>, <<"o","r">>, <<"n","o","t">>, <<"i","s">>, <<"i","n">>,
     <<"i","f">>, <<"e","l","s","e">>, <<"f","o","r">>, <<"a","s">>,
     <<"d","e","l">>, <<"d","e","f">>, <<"t","r","y">>,
     <<"l","a","m","b","d","a">>, <<"a","w","a","i","t">>, <<"a","s","y","n","c">>,
     <<"y","i","e","l","d">>, <<"e","l","i","f">>, <<"f","r","o","m">>,
     <<"p","a","s","s">>, <<"w","i","t","h">>, <<"b","r","e","a","k">>,
     <<"c","l","a","s","s">>, <<"r","a","i","s","e">>, <<"w","h","i","l","e">>,
     <<"a","s","s","e","r","t">>, <<"e","x","c","e","p","t">>,
     <<"g","l","o","b","a","l">>, <<"i","m","p","o","r","t">>,
     <<"r","e","t","u","r","n">>, <<"f","i","n","a","l","l","y">>,
     <<"c","o","n","t","i","n","u","e">>, <<"n","o","n","l","o","c","a","l">>}

\* keywords that continue or open an expression in ways the model leaves out
UnmodelledKeywords ==
    {<<"i","f">>, <<"e","l","s","e">>, <<"f","o","r">>,
     <<"l","a","m","b","d","a">>, <<"a","w","a","i","t">>, <<"a","s","y","n","c">>,
     <<"y","i","e","l","d">>}

IsKw(tok, w) == tok.type = "NAME" /\ tok.str = w

IsOp(tok, o) == tok.type = "OP" /\ tok.str = o

IsIdent(tok) == tok.type = "NAME" /\ tok.str \notin Keywords

\* An exception: its class, args[0], the text the message quotes, the details
\* tuple of a SyntaxError (filename, lineno, offset, text) and __cause__
Details(filename, lineno, offset, text) ==
    [filename |-> filename, lineno |-> lineno, offset |-> offset, text |-> text]

NoDetails == Details("", 0, 0, <<>>)

Exc(exc, msg, arg, details, cause) ==
    [exc |-> exc, msg |-> msg, arg |-> arg, details |-> details, cause |-> cause]

NoExc == Exc("none", "", <<>>, NoDetails, "none")

\* the SyntaxError of the parser at the token it could not accept
PySyntaxError(tok) ==
    Exc("SyntaxError",
        IF tok.type = "ERRORTOKEN" THEN tok.str[1]
        ELSE IF tok.type = "OUTOFMODEL"
                \/ (tok.type = "NAME" /\ tok.str \in UnmodelledKeywords)
        THEN "OutOfModel"
        ELSE IF tok.type = "INDENT" THEN "unexpected indent"
        ELSE IF tok.type = "ENDMARKER" \/ (tok.type = "NEWLINE" /\ tok.str # <<>>)
        THEN "unexpected EOF while parsing"
        ELSE "invalid syntax",
        <<>>,
        Details(PSEUDO_FILENAME, tok.line, tok.col + 1, <<>>),
        "none")

Ok(node, next) == [ok |-> TRUE, node |-> node, next |-> next]

Err(tok) == [ok |-> FALSE, node |-> PySyntaxError(tok), next |-> 0]

\* FIRST(test) on the tokens of the model
StartsTest(tok) ==
    \/ IsIdent(tok)
    \/ tok.type \in {"NUMBER", "STRING"}
    \/ IsOp(tok, <<"(">>) \/ IsOp(tok, <<"-">>)
    \/ IsKw(tok, <<"n","o","t">>)

CompOps ==
    {<<"<">>, <<">">>, <<"=","=">>, <<">","=">>, <<"<","=">>, <<"!","=">>}

CmpOpOf(o) ==
    CASE o = <<"<">> -> "Lt"
      [] o = <<">">> -> "Gt"
      [] o = <<"=","=">> -> "Eq"
      [] o = <<">","=">> -> "GtE"
      [] o = <<"<","=">> -> "LtE"
      [] o = <<"!","=">> -> "NotEq"

RECURSIVE ParseTest(_, _), ParseTestList(_, _, _), ParseStrings(_, _, _)
RECURSIVE ParseTrailers(_, _, _), ParseFactor(_, _)
RECURSIVE ParseArithRest(_, _, _), ParseShiftRest(_, _, _)
RECURSIVE ParseCompRest(_, _, _, _, _), ParseNotTest(_, _)
RECURSIVE ParseAndRest(_, _, _), ParseOrRest(_, _, _)

\* test (',' test)* [',']: [ok, node: the sequence of elements, next, comma]
ParseTestList(ts, k, acc) ==
    LET Rest(r) ==
            IF ~r.ok
            THEN [ok |-> FALSE, node |-> r.node, next |-> 0, comma |-> FALSE]
            ELSE IF IsOp(ts[r.next], <<",">>)
            THEN IF StartsTest(ts[r.next + 1])
                 THEN [ParseTestList(ts, r.next + 1, Append(acc, r.node))
                           EXCEPT !.comma = TRUE]
                 ELSE [ok |-> TRUE, node |-> Append(acc, r.node),
                       next |-> r.next + 1, comma |-> TRUE]
            ELSE [ok |-> TRUE, node |-> Append(acc, r.node), next |-> r.next,
                  comma |-> FALSE]
    IN  Rest(ParseTest(ts, k))

\* STRING+: adjacent literals are concatenated
ParseStrings(ts, k, acc) ==
    IF ts[k].type = "STRING" THEN ParseStrings(ts, k + 1, acc \o ts[k].str)
    ELSE [s |-> acc, next |-> k]

\* atom: '(' [testlist_comp] ')' | NAME | NUMBER | STRING+
ParseAtom(ts, k) ==
    LET Parenthesized(tok, r) ==
            IF ~r.ok THEN [ok |-> FALSE, node |-> r.node, next |-> 0]
            ELSE IF ~IsOp(ts[r.next], <<")">>) THEN Err(ts[r.next])
            ELSE IF r.comma THEN Ok(Tuple(r.node, tok.line, tok.col), r.next + 1)
            ELSE Ok(r.node[1], r.next + 1)
        Strings(tok, r) == Ok(Str(r.s, tok.line, tok.col), r.next)
        Atom(tok) ==
            IF IsOp(tok, <<"(">>) THEN
                IF IsOp(ts[k+1], <<")">>)
                THEN Ok(Tuple(<<>>, tok.line, tok.col), k + 2)
                ELSE Parenthesized(tok, ParseTestList(ts, k + 1, <<>>))
            ELSE IF IsIdent(tok) THEN Ok(Name(tok.str, tok.line, tok.col), k + 1)
            ELSE IF tok.type = "NUMBER"
            THEN Ok(Num(DecimalValue(tok.str), tok.line, tok.col), k + 1)
            ELSE IF tok.type = "STRING"
            THEN Strings(tok, ParseStrings(ts, k, <<>>))
            ELSE Err(tok)
    IN  Atom(ts[k])

\* trailer*: only the call trailer '(' [arglist] ')' with positional arguments
ParseTrailers(ts, k, node) ==
    LET Arguments(r) ==
            IF ~r.ok THEN [ok |-> FALSE, node |-> r.node, next |-> 0]
            ELSE IF IsOp(ts[r.next], <<"=">>)
            THEN Err(Token("OUTOFMODEL", <<"=">>, ts[r.next].line, ts[r.next].col))
            ELSE IF ~IsOp(ts[r.next], <<")">>) THEN Err(ts[r.next])
            ELSE ParseTrailers(ts, r.next + 1, Call(node, r.node))
    IN  IF ~IsOp(ts[k], <<"(">>) THEN Ok(node, k)
        ELSE IF IsOp(ts[k+1], <<")">>)
        THEN ParseTrailers(ts, k + 2, Call(node, <<>>))
        ELSE Arguments(ParseTestList(ts, k + 1, <<>>))

\* factor: '-' factor | atom trailer*
ParseFactor(ts, k) ==
    LET Negated(r) ==
            IF ~r.ok THEN r
            ELSE Ok(UnaryOp("USub", r.node, ts[k].line, ts[k].col), r.next)
        Trailed(a) == IF ~a.ok THEN a ELSE ParseTrailers(ts, a.next, a.node)
    IN  IF IsOp(ts[k], <<"-">>) THEN Negated(ParseFactor(ts, k + 1))
        ELSE Trailed(ParseAtom(ts, k))

\* arith_expr: term ('-' term)*
ParseArithRest(ts, k, left) ==
    LET Rest(r) ==
            IF ~r.ok THEN r
            ELSE ParseArithRest(ts, r.next, BinOp(left, "Sub", r.node))
    IN  IF IsOp(ts[k], <<"-">>) THEN Rest(ParseFactor(ts, k + 1))
        ELSE Ok(left, k)

ParseArith(ts, k) ==
    LET Rest(r) == IF ~r.ok THEN r ELSE ParseArithRest(ts, r.next, r.node)
    IN  Rest(ParseFactor(ts, k))

\* shift_expr: arith_expr (('<<'|'>>') arith_expr)*
ParseShiftRest(ts, k, left) ==
    LET Rest(r) ==
            IF ~r.ok THEN r
            ELSE ParseShiftRest(ts, r.next,
                     BinOp(left,
                           IF ts[k].str = <<"<","<">> THEN "LShift" ELSE "RShift",
                           r.node))
    IN  IF IsOp(ts[k], <<"<","<">>) \/ IsOp(ts[k], <<">",">">>)
        THEN Rest(ParseArith(ts, k + 1))
        ELSE Ok(left, k)

ParseExpr(ts, k) ==
    LET Rest(r) == IF ~r.ok THEN r ELSE ParseShiftRest(ts, r.next, r.node)
    IN  Rest(ParseArith(ts, k))

\* comp_op at token k: [name, next], "none" when there is none and "error"
\* for a 'not' that 'in' does not follow
ParseCompOp(ts, k) ==
    IF ts[k].type = "OP" /\ ts[k].str \in CompOps
        THEN [name |-> CmpOpOf(ts[k].str), next |-> k + 1]
    ELSE IF IsKw(ts[k], <<"i","n">>) THEN [name |-> "In", next |-> k + 1]
    ELSE IF IsKw(ts[k], <<"i","s">>) THEN
        IF IsKw(ts[k+1], <<"n","o","t">>)
        THEN [name |-> "IsNot", next |-> k + 2]
        ELSE [name |-> "Is", next |-> k + 1]
    ELSE IF IsKw(ts[k], <<"n","o","t">>) THEN
        IF IsKw(ts[k+1], <<"i","n">>)
        THEN [name |-> "NotIn", next |-> k + 2]
        ELSE [name |-> "error", next |-> k + 1]
    ELSE [name |-> "none", next |-> k]

\* comparison: expr (comp_op expr)*
ParseCompRest(ts, k, left, ops, comparators) ==
    LET Rest(op, r) ==
            IF ~r.ok THEN r
            ELSE ParseCompRest(ts, r.next, left, Append(ops, op.name),
                               Append(comparators, r.node))
        After(op) ==
            IF op.name = "none"
            THEN Ok(IF ops = <<>> THEN left ELSE Compare(left, ops, comparators), k)
            ELSE IF op.name = "error" THEN Err(ts[op.next])
            ELSE Rest(op, ParseExpr(ts, op.next))
    IN  After(ParseCompOp(ts, k))

ParseComparison(ts, k) ==
    LET Rest(r) ==
            IF ~r.ok THEN r ELSE ParseCompRest(ts, r.next, r.node, <<>>, <<>>)
    IN  Rest(ParseExpr(ts, k))

\* not_test: 'not' not_test | comparison
ParseNotTest(ts, k) ==
    LET Negated(r) ==
            IF ~r.ok THEN r
            ELSE Ok(UnaryOp("Not", r.node, ts[k].line, ts[k].col), r.next)
    IN  IF IsKw(ts[k], <<"n","o","t">>) THEN Negated(ParseNotTest(ts, k + 1))
        ELSE ParseComparison(ts, k)

\* and_test: not_test ('and' not_test)*, one BoolOp for the whole chain
ParseAndRest(ts, k, values) ==
    LET Rest(r) ==
            IF ~r.ok THEN r ELSE ParseAndRest(ts, r.next, Append(values, r.node))
    IN  IF IsKw(ts[k], <<"a","n","d">>) THEN Rest(ParseNotTest(ts, k + 1))
        ELSE Ok(IF Len(values) = 1 THEN values[1] ELSE BoolOp("And", values), k)

ParseAndTest(ts, k) ==
    LET Rest(r) == IF ~r.ok THEN r ELSE ParseAndRest(ts, r.next, <<r.node>>)
    IN  Rest(ParseNotTest(ts, k))

\* or_test: and_test ('or' and_test)*, one BoolOp for the whole chain
ParseOrRest(ts, k, values) ==
    LET Rest(r) ==
            IF ~r.ok THEN r ELSE ParseOrRest(ts, r.next, Append(values, r.node))
    IN  IF IsKw(ts[k], <<"o","r">>) THEN Rest(ParseAndTest(ts, k + 1))
        ELSE Ok(IF Len(values) = 1 THEN values[1] ELSE BoolOp("Or", values), k)

ParseTest(ts, k) ==
    LET Rest(r) == IF ~r.ok THEN r ELSE ParseOrRest(ts, r.next, <<r.node>>)
    IN  Rest(ParseAndTest(ts, k))

\* eval_input: testlist NEWLINE* ENDMARKER
ParseEvalInput(ts) ==
    LET Input(r) ==
            IF ~r.ok THEN [ok |-> FALSE, node |-> r.node, next |-> 0]
            ELSE IF ts[r.next].type # "NEWLINE" THEN Err(ts[r.next])
            ELSE IF ts[r.next + 1].type # "ENDMARKER" THEN Err(ts[r.next + 1])
            ELSE Ok(IF r.comma
                    THEN Tuple(r.node, r.node[1].lineno, r.node[1].col_offset)
                    ELSE r.node[1], r.next + 2)
    IN  Input(ParseTestList(ts, 1, <<>>))

\* ast.parse(source, filename, mode="eval"): ok with the body of the
\* Expression, or the SyntaxError
ast_parse(source) == ParseEvalInput(tokenize(source))

(***************************************************************************)
(* Raw values and the converters a caller registers.  A raw value is a     *)
(* number [t |-> "num", n] or a string [t |-> "str", s]; the registry maps *)
(* a key to the name of a builtin, "int" or "str".                         *)
(***************************************************************************)
NumVal(n) == [t |-> "num", n |-> n]

StrVal(s) == [t |-> "str", s |-> s]

RECURSIVE NatToStr(_)
NatToStr(n) ==
    IF n < 10 THEN <<Digits[n + 1]>>
    ELSE NatToStr(n \div 10) \o <<Digits[(n % 10) + 1]>>

\* str(value)
PyStr(v) ==
    IF v.t = "str" THEN [exc |-> NoExc, val |-> v]
    ELSE [exc |-> NoExc,
          val |-> StrVal(IF v.n < 0 THEN <<"-">> \o NatToStr(-v.n) ELSE NatToStr(v.n))]

\* int(value): a number as it is; a string is stripped and read as an
\* optionally signed run of decimal digits, anything else is a ValueError
PyInt(v) ==
    IF v.t = "num" THEN [exc |-> NoExc, val |-> v]
    ELSE LET s == Strip(v.s)
             neg == s # <<>> /\ s[1] = "-"
             ds == IF neg THEN Tail(s) ELSE s
         IN  IF ds # <<>> /\ \A k \in 1..Len(ds) : ds[k] \in DigitSet
             THEN [exc |-> NoExc,
                   val |-> NumVal(IF neg THEN -DecimalValue(ds) ELSE DecimalValue(ds))]
             ELSE [exc |-> Exc("ValueError", "invalid literal for int() with base 10",
                               v.s, NoDetails, "none"),
                   val |-> v]

ApplyConverter(conv, v) == IF conv = "int" THEN PyInt(v) ELSE PyStr(v)

\* dict.get(key): the converter, or "None"
DictGet(d, key) == IF key \in DOMAIN d THEN d[key] ELSE "None"

(***************************************************************************)
(* The AST builder.  Every function returns [exc, val, calls]: the         *)
(* exception it raises (NoExc when it returns), its value, and the         *)
(* converter calls made so far, [field, raw], in order.                    *)
(***************************************************************************)
Comparison(op, name, value) ==
    [kind |-> "Comparison", op |-> op, name |-> name, value |-> value]

LogicalOperator(op, operands) ==
    [kind |-> "LogicalOperator", op |-> op, operands |-> operands]

NoAst == [kind |-> "none"]

Return(val, log) == [exc |-> NoExc, val |-> val, calls |-> log]

Raise(e, log) == [exc |-> e, val |-> NoAst, calls |-> log]

_raise_syntax_error(message, arg, node) ==
    Exc("SyntaxError", message, arg,
        Details(PSEUDO_FILENAME, node.lineno, node.col_offset, <<>>), "none")

\* ast.iter_child_nodes of a Compare: left, the operators, the comparators
CompareChildren(node) ==
    <<node.left>> \o [i \in 1..Len(node.ops) |-> [type |-> node.ops[i]]]
                  \o node.comparators

RECURSIVE _parse_value_node(_)

\* _parse_value_node without the minus in front of the recursive call
_parse_value_node_minus_dropped(value_node) ==
    IF value_node.type = "Str" THEN [exc |-> NoExc, val |-> StrVal(value_node.s)]
    ELSE IF value_node.type = "Num" THEN [exc |-> NoExc, val |-> NumVal(value_node.n)]
    ELSE IF value_node.type = "UnaryOp" /\ value_node.op = "USub" THEN
        LET r == _parse_value_node(value_node.operand) IN
        IF r.exc # NoExc THEN r
        ELSE IF r.val.t = "num" THEN [exc |-> NoExc, val |-> NumVal(r.val.n)]
        ELSE [exc |-> _raise_syntax_error("Attempt to negate non-number", <<>>,
                                          value_node),
              val |-> r.val]
    ELSE [exc |-> _raise_syntax_error("Value is not a number or a string", <<>>,
                                      value_node),
          val |-> StrVal(<<>>)]

_parse_value_node(value_node) ==
    IF value_node.type = "Str" THEN [exc |-> NoExc, val |-> StrVal(value_node.s)]
    ELSE IF value_node.type = "Num" THEN [exc |-> NoExc, val |-> NumVal(value_node.n)]
    ELSE IF value_node.type = "UnaryOp" /\ value_node.op = "USub" THEN
        LET r == _parse_value_node(value_node.operand) IN
        IF r.exc # NoExc THEN r
        ELSE IF r.val.t = "num" THEN [exc |-> NoExc, val |-> NumVal(-r.val.n)]
        ELSE [exc |-> _raise_syntax_error("Attempt to negate non-number", <<>>,
                                          value_node),
              val |-> r.val]
    ELSE [exc |-> _raise_syntax_error("Value is not a number or a string", <<>>,
                                      value_node),
          val |-> StrVal(<<>>)]

\* the lower-cased class name of an operator node
OpClassName(op) ==
    CASE op = "Is" -> <<"i","s">>
      [] op = "IsNot" -> <<"i","s","n","o","t">>
      [] op = "In" -> <<"i","n">>
      [] op = "NotIn" -> <<"n","o","t","i","n">>
      [] OTHER -> <<>>

_convert_rel_op(ast_op, node) ==
    CASE ast_op = "Eq" -> [exc |-> NoExc, op |-> "eq"]
      [] ast_op = "NotEq" -> [exc |-> NoExc, op |-> "ne"]
      [] ast_op = "Gt" -> [exc |-> NoExc, op |-> "gt"]
      [] ast_op = "Lt" -> [exc |-> NoExc, op |-> "lt"]
      [] ast_op = "GtE" -> [exc |-> NoExc, op |-> "ge"]
      [] ast_op = "LtE" -> [exc |-> NoExc, op |-> "le"]
      [] OTHER -> [exc |-> _raise_syntax_error("Unknown comparison operator",
                                               OpClassName(ast_op), node),
                   op |-> "none"]

_parse_comparison(node, convs, log) ==
    LET children == CompareChildren(node) IN
    IF Len(children) # 3
    THEN Raise(Exc("ValueError", "too many values to unpack (expected 3)", <<>>,
                   NoDetails, "none"), log)
    ELSE
    LET name_node == children[1]
        ast_op == children[2].type
        value_node == children[3]
    IN
    IF name_node.type # "Name"
    THEN Raise(Exc("AssertionError", "", <<>>, NoDetails, "none"), log)
    ELSE
    LET value == _parse_value_node(value_node)
        value_converter == DictGet(convs, name_node.id)
    IN
    IF value.exc # NoExc THEN Raise(value.exc, log)
    ELSE IF value_converter = "None"
    THEN Raise(Exc("NameError", "No such field", name_node.id, NoDetails, "none"),
               log)
    ELSE
    LET log2 == Append(log, [field |-> name_node.id, raw |-> value.val])
        converted_value == ApplyConverter(value_converter, value.val)
    IN
    IF converted_value.exc # NoExc THEN Raise(converted_value.exc, log2)
    ELSE
    LET op == _convert_rel_op(ast_op, node) IN
    IF op.exc.exc \in {"ValueError", "TypeError"}
    THEN Raise(Exc(op.exc.exc, "Failed to apply converter to field", name_node.id,
                   NoDetails, op.exc.exc), log2)
    ELSE IF op.exc # NoExc THEN Raise(op.exc, log2)
    ELSE Return(Comparison(op.op, name_node.id, converted_value.val), log2)

RECURSIVE _parse_node(_, _, _), MapParseNode(_, _, _, _)

\* tuple(map(self._parse_node, child_nodes)): left to right, the first
\* exception ends the walk
MapParseNode(nodes, convs, log, acc) ==
    IF nodes = <<>> THEN Return(acc, log)
    ELSE LET r == _parse_node(Head(nodes), convs, log) IN
         IF r.exc # NoExc THEN r
         ELSE MapParseNode(Tail(nodes), convs, r.calls,
                           Append(acc, r.val))

_parse_boolean_expression(node, convs, log) ==
    LET ast_op == node.op
        child_nodes == IF node.type = "BoolOp" THEN node.values ELSE <<node.operand>>
        op == CASE ast_op = "And" -> "and_"
                [] ast_op = "Or" -> "or_"
                [] ast_op = "Not" -> "not_"
        operands == MapParseNode(child_nodes, convs, log, <<>>)
    IN  IF operands.exc # NoExc THEN operands
        ELSE Return(LogicalOperator(op, operands.val), operands.calls)

_parse_node(node, convs, log) ==
    IF node.type = "Compare"
    THEN _parse_comparison(node, convs, log)
    ELSE IF node.type = "BoolOp" \/ (node.type = "UnaryOp" /\ node.op = "Not")
    THEN _parse_boolean_expression(node, convs, log)
    ELSE Raise(_raise_syntax_error("Unsupported expression", <<>>, node), log)

\* lines[i] of a Python list, i possibly negative: [ok, val]
ListIndex(lines, i) ==
    IF 0 <= i /\ i < Len(lines) THEN [ok |-> TRUE, val |-> lines[i + 1]]
    ELSE IF -Len(lines) <= i /\ i < 0 THEN [ok |-> TRUE, val |-> lines[Len(lines) + i + 1]]
    ELSE [ok |-> FALSE, val |-> <<>>]

\* the handler of _make_ast: the SyntaxError re-raised with a line of the query
RewriteSyntaxError(se, q) ==
    LET lines == splitlines(q)
        line == ListIndex(lines, se.details.lineno - 1)
    IN  IF ~line.ok
        THEN Exc("IndexError", "list index out of range", <<>>, NoDetails, "none")
        ELSE Exc("SyntaxError", se.msg, se.arg,
                 Details(se.details.filename, se.details.lineno, se.details.offset,
                         line.val),
                 "none")

\* _make_ast as a function of the stripped query: [exc, val, calls]
_make_ast(q, convs) ==
    LET Walked(tree) ==
            IF tree.ok THEN _parse_node(tree.node, convs, <<>>)
            ELSE Raise(tree.node, <<>>)
        Handled(r) ==
            IF r.exc.exc = "SyntaxError"
            THEN Raise(RewriteSyntaxError(r.exc, q), r.calls)
            ELSE r
    IN  Handled(Walked(ast_parse(_query_to_python_expression(q))))

\* QueryAst(query, field_value_converters): the outcome of the constructor
QueryAst(q, convs) == _make_ast(Strip(q), convs)

(***************************************************************************)
(* The caller's inputs: queries and converter registries                   *)
(***************************************************************************)
MaxMinus == 2

MaxOperands == 3

MaxLexemes == 3

W_count == <<"c","o","u","n","t">>

W_COUNT == <<"C","O","U","N","T">>

W_Count == <<"C","o","u","n","t">>

W_size == <<"s","i","z","e">>

W_name == <<"n","a","m","e">>

\* CONVERTERS of the tests: count is read by int; name is kept by str
RegLower == [k \in {W_count, W_name} |-> IF k = W_count THEN "int" ELSE "str"]

\* a registry whose key is not lower case
RegMixed == [k \in {W_Count} |-> "int"]

\* the default of the constructor: no converters
RegEmpty == [k \in {} |-> "int"]

RelOpTexts ==
    {<<"e","q">>, <<"n","e">>, <<"g","t">>, <<"l","t">>, <<"g","e">>,
     <<"l","e">>, <<"E","Q">>, <<"G","t">>, <<"l","E">>, <<"=","=">>,
     <<"!","=">>, <<">">>, <<"<">>, <<">","=">>, <<"<","=">>, <<"i","s">>,
     <<"i","s"," ","n","o","t">>, <<"i","n">>, <<">",">">>, <<"<",">">>,
     <<"=">>, <<"!">>}

LiteralTexts ==
    {<<"1">>, <<"1","2">>, <<"'","x","'">>, <<"'","1","2","'">>,
     <<"'","G","t","'">>, <<"'","A"," ","e","q"," ","b","'">>, <<"x">>,
     <<"(",")">>, <<"'","x">>}

Leads == {<<>>, <<" ">>}

FieldTexts == {W_count, W_Count, W_size, W_name}

RECURSIVE Minuses(_)
Minuses(k) == IF k = 0 THEN <<>> ELSE <<"-">> \o Minuses(k - 1)

\* <field> <operator> 1
OperatorQueries ==
    {f \o <<" ">> \o op \o <<" ", "1">> : f \in {W_count, W_COUNT}, op \in RelOpTexts}

\* [ ]<field> eq -...-<literal>
ValueQueries ==
    {lead \o f \o <<" ","e","q"," ">> \o Minuses(k) \o lit :
        lead \in Leads, f \in FieldTexts, k \in 0..MaxMinus, lit \in LiteralTexts}

BeforeWord ==
    {<<" ">>, <<>>, <<">">>, <<"<">>, <<"=">>, <<"!">>, <<"-">>,
     <<" ","x">>}

AfterWord ==
    {<<" ">>, <<>>, <<"=">>, <<">">>, <<"<">>, <<"x">>}

\* a relational keyword between the characters that may touch it
ContextQueries ==
    {W_count \o b \o w \o a \o <<"1">> :
        b \in BeforeWord, w \in RelOpWords, a \in AfterWord}

\* operand i of a chain: count eq <i>, or size eq <i> at position bad
Operand(i, bad) ==
    (IF i = bad THEN W_size ELSE W_count) \o <<" ","e","q"," ">> \o <<Digits[i + 1]>>

Connectives == {<<" ","a","n","d"," ">>, <<" ","o","r"," ">>}

\* operands i..n joined by the connectives ks, operands lo..hi in parentheses
\* and operand neg negated
RECURSIVE ChainFrom(_, _, _, _, _, _, _)
ChainFrom(i, n, ks, bad, lo, hi, neg) ==
    LET item == (IF i = lo THEN <<"(">> ELSE <<>>)
                \o (IF i = neg THEN <<"n","o","t"," ">> ELSE <<>>)
                \o Operand(i, bad)
                \o (IF i = hi THEN <<")">> ELSE <<>>)
    IN  IF i = n THEN item
        ELSE item \o ks[i] \o ChainFrom(i + 1, n, ks, bad, lo, hi, neg)

Groupings(n) ==
    {<<0, 0>>} \cup {<<lo, hi>> \in (1..n) \X (1..n) : lo < hi /\ (lo = 1 \/ hi = n)}

ChainQueries ==
    UNION {{ChainFrom(1, n, ks, bad, g[1], g[2], neg) :
               ks \in [1..(n-1) -> Connectives], bad \in 0..n,
               g \in Groupings(n), neg \in 0..n} : n \in 1..MaxOperands}

\* empty and blank queries
BlankQueries ==
    {<<>>, <<" ">>, <<"\n">>, <<" ","\n","\t">>}

\* trailing tokens after a complete expression; expressions that are juxtaposed
\* or separated by a comma or a semicolon (test_malformed, test_parens)
SeveralExpressionQueries ==
    {<<"c","o","u","n","t"," ","e","q"," ","3"," ","s","i","z","e"," ","e","q"," ","4">>,
     <<"c","o","u","n","t"," ","e","q"," ","3",","," ","s","i","z","e"," ","e","q"," ","4">>,
     <<"c","o","u","n","t"," ","e","q"," ","3"," ",";"," ","s","i","z","e"," ","e","q"," ","4">>,
     <<"c","o","u","n","t"," ","e","q"," ","1"," ","2">>,
     <<"c","o","u","n","t"," ","e","q"," ","1",")">>,
     <<"c","o","u","n","t"," ","e","q"," ","1",",">>,
     <<"(","c","o","u","n","t"," ","e","q"," ","1",")",")"," ","a","n","d"," ","(","c","o","u","n","t"," ","g","t"," ","2",")">>,
     <<"c","o","u","n","t"," ","e","q"," ","1"," ","c","o","u","n","t">>,
     <<"c","o","u","n","t"," ","e","q"," ","1"," ","'","x","'">>}

\* further malformed, multi-line and parenthesized queries
OtherQueries ==
    {<<"1"," ","e","q"," ","1">>,
     <<"c","o","u","n","t"," ","g","t"," ","1"," ","l","t"," ","5">>,
     <<"(","c","o","u","n","t"," ","e","q"," ","1">>,
     <<"c","o","u","n","t">>, <<"(",")">>,
     <<"c","o","u","n","t"," ","e","q">>,
     <<"-","c","o","u","n","t"," ","e","q"," ","1">>,
     <<"c","o","u","n","t"," ","e","q"," ","1","\n","a","n","d"," ","c","o","u","n","t"," ","e","q"," ","2">>,
     <<"(","c","o","u","n","t"," ","e","q"," ","1","\n","a","n","d"," ","c","o","u","n","t"," ","e","q"," ","x",")">>,
     <<"(","c","o","u","n","t"," ","e","q"," ","1","\n","a","n","d"," ","c","o","u","n","t"," ","e","q"," ","2",")">>,
     <<"c","o","u","n","t"," ","e","q"," ","'","x","'"," ","'","y","'">>,
     <<" ","(","c","o","u","n","t"," ","e","q"," ","1","\n"," ","a","n","d"," ","c","o","u","n","t"," ","g","t"," ","'","x">>,
     <<"c","o","u","n","t"," ","e","q"," ","-"," ","-","1">>,
     <<"c","o","u","n","t"," ","e","q"," ","-","(","1",")">>,
     <<"c","o","u","n","t"," ","e","q"," ","(","1",")">>,
     <<"c","o","u","n","t"," ","(","1",")"," ","e","q"," ","1">>,
     <<"c","o","u","n","t"," ","e","q"," ","1"," ","-"," ","2">>,
     <<"n","o","t"," ","n","o","t"," ","c","o","u","n","t"," ","e","q"," ","1">>,
     <<"N","O","T"," ","c","o","u","n","t"," ","e","q"," ","1">>,
     <<"c","o","u","n","t"," ","e","q"," ","1"," ","A","N","D"," ","n","a","m","e"," ","e","q"," ","'","x","'"," ","O","r"," ","s","i","z","e"," ","e","q"," ","2">>,
     <<"c","o","u","n","t"," ","e","q"," ","1"," ","a","n","d"," ","x">>,
     <<"c","o","u","n","t"," ","e","q"," ","0","1">>,
     <<"c","o","u","n","t"," ","e","q"," ","'","'","'","x","'","'","'">>,
     <<"c","o","u","n","t"," ","e","q"," ","'","'","'","x">>,
     <<"\n"," ","c","o","u","n","t"," ","e","q"," ","(",")">>,
     <<"c","o","u","n","t"," ","e","q"," ","1"," ","a","n","d","\n","c","o","u","n","t"," ","e","q"," ","2">>,
     <<"(","C","O","U","N","T"," ","G","T"," ","1",")"," ","A","N","D"," ","(","N","a","m","e"," ","E","Q"," ","'","A","b","'",")">>,
     <<"(","(","c","o","u","n","t"," ","e","q"," ","1",")"," ","a","n","d"," ","(","c","o","u","n","t"," ","e","q"," ","2",")",")"," ","a","n","d"," ","(","(","c","o","u","n","t"," ","e","q"," ","3",")",")">>,
     <<"n","a","m","e"," ","e","q"," ","\"","A","b","\"">>,
     <<"c","o","u","n","t"," ","e","q","\t","1">>,
     <<"c","o","u","n","t"," ","e","q"," ","1"," ","o","r"," ","n","a","m","e"," ","e","q"," ","'","x","'"," ","a","n","d"," ","c","o","u","n","t"," ","g","t"," ","2">>,
     <<"(","c","o","u","n","t"," ","e","q"," ","1"," ","o","r"," ","n","a","m","e"," ","e","q"," ","'","x","'",")"," ","a","n","d"," ","c","o","u","n","t"," ","g","t"," ","2">>}

Lexemes ==
    {<<"c","o","u","n","t">>, <<"e","q">>, <<"g","t">>, <<">">>, <<"1">>,
     <<"'">>, <<"x">>, <<"(">>, <<")">>, <<",">>, <<" ">>, <<"-">>,
     <<"n","o","t">>, <<"a","n","d">>}

RECURSIVE LexemeSeqs(_)
LexemeSeqs(n) ==
    IF n = 0 THEN {<<>>}
    ELSE LET shorter == LexemeSeqs(n - 1)
         IN  shorter \cup {s \o l : s \in shorter, l \in Lexemes}

LexemeQueries == LexemeSeqs(MaxLexemes)

Queries ==
    OperatorQueries \cup ValueQueries \cup ContextQueries \cup ChainQueries
    \cup BlankQueries \cup SeveralExpressionQueries \cup OtherQueries
    \cup LexemeQueries

Inputs ==
    (Queries \X {RegLower})
    \cup ((OperatorQueries \cup ValueQueries) \X {RegMixed, RegEmpty})

(***************************************************************************)
(* The constructor as a state machine                                      *)
(***************************************************************************)
NoNode == [type |-> "none"]

Init ==
    /\ pc = "new"
    /\ \E in \in Inputs :
          /\ query = in[1]
          /\ field_value_converters = in[2]
    /\ query_text = <<>>
    /\ py_ast = NoNode
    /\ ast = NoAst
    /\ raised = NoExc
    /\ calls = <<>>

\* __init__: strip the query, keep the registry, call _make_ast
Construct ==
    /\ pc = "new"
    /\ query_text' = Strip(query)
    /\ pc' = "make_ast"
    /\ UNCHANGED <<query, field_value_converters, py_ast, ast, raised, calls>>

\* _make_ast: ast.parse of the normalized text
Parse ==
    /\ pc = "make_ast"
    /\ LET tree == ast_parse(_query_to_python_expression(query_text)) IN
       IF tree.ok
       THEN /\ py_ast' = tree.node
            /\ pc' = "walk"
            /\ UNCHANGED raised
       ELSE /\ raised' = tree.node
            /\ pc' = "except"
            /\ UNCHANGED py_ast
    /\ UNCHANGED <<query, field_value_converters, query_text, ast, calls>>

\* _make_ast: _parse_node of the root; the result becomes self.ast, a
\* SyntaxError goes to the handler, any other exception leaves the constructor
Walk ==
    /\ pc = "walk"
    /\ LET r == _parse_node(py_ast, field_value_converters, <<>>) IN
       /\ calls' = r.calls
       /\ ast' = r.val
       /\ raised' = r.exc
       /\ pc' = IF r.exc.exc = "SyntaxError" THEN "except" ELSE "done"
    /\ UNCHANGED <<query, field_value_converters, query_text, py_ast>>

\* _make_ast: except SyntaxError
Handler ==
    /\ pc = "except"
    /\ raised' = RewriteSyntaxError(raised, query_text)
    /\ pc' = "done"
    /\ UNCHANGED <<query, field_value_converters, query_text, py_ast, ast, calls>>

Next == Construct \/ Parse \/ Walk \/ Handler

Spec == Init /\ [][Next]_vars

\* no query leaves the part of the grammar that ast_parse models
InModel == raised.msg # "OutOfModel"

\* the state machine ends where the function QueryAst ends
AgreesWithQueryAst ==
    pc = "done" =>
        LET r == QueryAst(query, field_value_converters)
        IN  r.exc = raised /\ r.val = ast /\ r.calls = calls

(***************************************************************************)
(* Properties                                                              *)
(***************************************************************************)
Done == pc = "done"

\* the root of the generic tree is NAME <one operator> <value>
IsSimpleComparison(node) ==
    /\ node.type = "Compare"
    /\ Len(node.ops) = 1
    /\ node.left.type = "Name"

\* the number of minus signs in front of a value node, and the node under them
RECURSIVE MinusCount(_)
MinusCount(node) ==
    IF node.type = "UnaryOp" /\ node.op = "USub" THEN 1 + MinusCount(node.operand)
    ELSE 0

RECURSIVE UnderMinuses(_)
UnderMinuses(node) ==
    IF node.type = "UnaryOp" /\ node.op = "USub" THEN UnderMinuses(node.operand)
    ELSE node

IsLiteral(node) == UnderMinuses(node).type \in {"Str", "Num"}

\* the literal evaluates: a number under any minus signs, or a bare string
LiteralEvaluates(node) ==
    \/ UnderMinuses(node).type = "Num"
    \/ node.type = "Str"

LowerKeys(d) == {Lower(k) : k \in DOMAIN d}

\* the converter called last raised
LastCallFailed ==
    /\ calls # <<>>
    /\ LET c == calls[Len(calls)] IN
       ApplyConverter(DictGet(field_value_converters, c.field), c.raw).exc # NoExc

\* C1: when the converter of a registered field fails on the evaluated literal,
\* build fails with a conversion error that names the field and keeps the
\* converter's failure as its cause
C1_ConverterFailureWrapped ==
    (Done /\ LastCallFailed) =>
        /\ raised.msg = "Failed to apply converter to field"
        /\ raised.arg = calls[Len(calls)].field
        /\ raised.cause # "none"

\* C2: a comparison on a field absent from the registry fails with the
\* unknown-field error naming the field, whatever its right-hand literal is
C2_UnknownFieldReported ==
    (/\ Done
     /\ IsSimpleComparison(py_ast)
     /\ IsLiteral(py_ast.comparators[1])
     /\ py_ast.left.id \notin LowerKeys(field_value_converters)) =>
        /\ raised.exc = "NameError"
        /\ raised.arg = py_ast.left.id

\* C3: a comparison on field F is served by the converter stored under any key
\* that equals F ignoring case
C3_RegistryLookupIgnoresCase ==
    (/\ Done
     /\ IsSimpleComparison(py_ast)
     /\ LiteralEvaluates(py_ast.comparators[1])
     /\ py_ast.left.id \in LowerKeys(field_value_converters)) =>
        /\ raised.exc # "NameError"
        /\ Len(calls) = 1
        /\ calls[1].field = py_ast.left.id

\* index in t of column col of line lineno
RECURSIVE LineStart(_, _, _)
LineStart(t, lineno, i) ==
    IF lineno = 1 THEN i
    ELSE IF t[i] = "\n" THEN LineStart(t, lineno - 1, i + 1)
    ELSE LineStart(t, lineno, i + 1)

\* the characters between the quotes of the string literal at node's position
QuotedText(t, node) ==
    LET open == LineStart(t, node.lineno, 1) + node.col_offset
        close == ScanString(t, open + 1, t[open])
    IN  SubSeq(t, open + 1, close - 1)

\* the value is one one-line string literal (no adjacent literals, no triple quotes)
IsOneStringLiteral(t, node) ==
    /\ node.type = "Str"
    /\ LET open == LineStart(t, node.lineno, 1) + node.col_offset
           close == ScanString(t, open + 1, t[open])
       IN  close # 0 /\ close - open - 1 = Len(node.s)

\* C4: the raw value handed to the converter for a STRING literal is the text
\* between the quotes of the caller's query, verbatim
C4_StringLiteralVerbatim ==
    (/\ Done
     /\ IsSimpleComparison(py_ast)
     /\ IsOneStringLiteral(query_text, py_ast.comparators[1])
     /\ calls # <<>>) =>
        calls[1].raw = StrVal(QuotedText(query_text, py_ast.comparators[1]))

\* C5: a syntax error carries the placeholder file name, a 1-based number of a
\* line of the query and exactly that line of the query as the caller gave it
C5_SyntaxErrorQuotesCallerLine ==
    (Done /\ raised.exc = "SyntaxError") =>
        /\ raised.details.filename = PSEUDO_FILENAME
        /\ raised.details.lineno \in 1..Len(splitlines(query))
        /\ raised.details.text = splitlines(query)[raised.details.lineno]

\* C6: an empty or blank query, trailing tokens after a complete expression and
\* expressions joined by anything but and/or/not are rejected with a syntax error
C6_MalformedQueriesRejected ==
    (Done /\ (Strip(query) = <<>> \/ query \in SeveralExpressionQueries)) =>
        raised.exc = "SyntaxError"

\* no And directly under an And, no Or directly under an Or
RECURSIVE IsFlat(_)
IsFlat(node) ==
    node.kind = "LogicalOperator" =>
        \A i \in 1..Len(node.operands) :
            /\ ~(/\ node.op \in {"and_", "or_"}
                 /\ node.operands[i].kind = "LogicalOperator"
                 /\ node.operands[i].op = node.op)
            /\ IsFlat(node.operands[i])

\* C7: in every AST that build returns, same-operator chains are flattened
C7_SameOperatorChainsFlat ==
    (Done /\ raised = NoExc) => IsFlat(ast)

\* a failure of a converter, re-raised or not
IsConversionError(e) ==
    e.msg \in {"Failed to apply converter to field",
               "invalid literal for int() with base 10"}

\* C9: build ends in an AST, a SyntaxError with a source position, the
\* unknown-field error or the conversion error; a comparison whose left side
\* is no bare name or that chains operators is rejected with a SyntaxError
C9_OutcomeInTaxonomy ==
    Done =>
        /\ \/ raised = NoExc /\ ast # NoAst
           \/ raised.exc = "SyntaxError" /\ raised.details.lineno >= 1
           \/ raised.exc = "NameError"
           \/ IsConversionError(raised)
        /\ (py_ast.type = "Compare" /\ ~IsSimpleComparison(py_ast)) =>
               raised.exc = "SyntaxError"

\* the quote that is open before index i of t ("" when none is)
RECURSIVE OpenQuote(_, _, _, _)
OpenQuote(t, i, k, open) ==
    IF k >= i THEN open
    ELSE IF open = "" THEN OpenQuote(t, i, k + 1, IF t[k] \in Quotes THEN t[k] ELSE "")
    ELSE OpenQuote(t, i, k + 1, IF t[k] = open \/ t[k] = "\n" THEN "" ELSE open)

\* a word (a maximal run of word characters) starts at i, outside any quotes
WordStartsAt(t, i) ==
    /\ IsWordChar(t[i])
    /\ (i = 1 \/ ~IsWordChar(t[i-1]))
    /\ OpenQuote(t, i, 1, "") = ""

WordAt(t, i) == SubSeq(t, i, ScanWord(t, i) - 1)

ReplaceWordAt(t, i, w) ==
    SubSeq(t, 1, i - 1) \o w \o SubSeq(t, ScanWord(t, i), Len(t))

\* the symbolic form of a word-form relational operator
SymbolForm(w) ==
    CASE w = <<"e","q">> -> <<"=","=">>
      [] w = <<"n","e">> -> <<"!","=">>
      [] w = <<"g","t">> -> <<">">>
      [] w = <<"l","t">> -> <<"<">>
      [] w = <<"g","e">> -> <<">","=">>
      [] w = <<"l","e">> -> <<"<","=">>

\* q with one word-form relational operator replaced by its symbolic form
SymbolVariants(q) ==
    {ReplaceWordAt(q, i, SymbolForm(Lower(WordAt(q, i)))) :
        i \in {j \in 1..Len(q) : WordStartsAt(q, j) /\ Lower(WordAt(q, j)) \in RelOpWords}}

\* q with the letter case of one word changed
CaseVariants(q) ==
    UNION {{ReplaceWordAt(q, i, Lower(WordAt(q, i))),
            ReplaceWordAt(q, i, [k \in 1..Len(WordAt(q, i)) |-> UpperChar(WordAt(q, i)[k])])} :
        i \in {j \in 1..Len(q) : WordStartsAt(q, j)}}

\* equal ASTs, or both fail
SameOutcome(a, b) ==
    (a.exc = NoExc \/ b.exc = NoExc) => (a.exc = b.exc /\ a.val = b.val)

RECURSIVE NamesAreLower(_)
NamesAreLower(node) ==
    IF node.kind = "Comparison" THEN node.name = Lower(node.name)
    ELSE \A i \in 1..Len(node.operands) : NamesAreLower(node.operands[i])

\* C8: replacing a word-form relational operator by its symbolic form, or
\* changing the letter case of an operator, keyword or field name, leaves the
\* outcome as it is (equal ASTs with lower-case names, or both fail), and the
\* normalized text is as long as the query
C8_WordSymbolAndCaseEquivalent ==
    Done =>
        /\ \A v \in SymbolVariants(query) \cup CaseVariants(query) :
              SameOutcome(QueryAst(v, field_value_converters),
                          [exc |-> raised, val |-> ast])
        /\ Len(_query_to_python_expression(query_text)) = Len(query_text)
        /\ raised = NoExc => NamesAreLower(ast)

\* C8 witness: an upper-case field with a word-form operator yields an AST
C8_Witness ==
    /\ Done
    /\ raised = NoExc
    /\ SymbolVariants(query) # {}
    /\ query # Lower(query)

\* C10: k minus signs before a number v hand v (k even) or -v (k odd) to the
\* converter; a minus before a string is the syntax error "Attempt to negate
\* non-number"; any other right-hand side is the syntax error "Value is not a
\* number or a string"
C10_MinusSignsCompose ==
    (Done /\ IsSimpleComparison(py_ast)) =>
        LET value_node == py_ast.comparators[1]
            k == MinusCount(value_node)
            leaf == UnderMinuses(value_node)
        IN  /\ (/\ leaf.type = "Num"
                /\ DictGet(field_value_converters, py_ast.left.id) # "None") =>
                   /\ Len(calls) = 1
                   /\ calls[1].raw = NumVal(IF k % 2 = 0 THEN leaf.n ELSE -leaf.n)
            /\ (leaf.type = "Str" /\ k >= 1) =>
                   /\ raised.exc = "SyntaxError"
                   /\ raised.msg = "Attempt to negate non-number"
            /\ leaf.type \notin {"Str", "Num"} =>
                   /\ raised.exc = "SyntaxError"
                   /\ raised.msg = "Value is not a number or a string"

\* C10 witness: a doubly negated number reached the converter
C10_Witness ==
    /\ Done
    /\ IsSimpleComparison(py_ast)
    /\ MinusCount(py_ast.comparators[1]) = 2
    /\ UnderMinuses(py_ast.comparators[1]).type = "Num"
    /\ calls # <<>>

====
